---- MODULE Spec2Model ----
(***************************************************************************)
(* Model of src/app.py: the /deploy_code route (save the submitted code     *)
(* and run it) and the /deploy_to_github route (materialize docs/, then     *)
(* drive git through rev-parse / init / remote / add / commit / push).      *)
(*                                                                          *)
(* Every text the code inspects (subprocess output, the returned output     *)
(* string, remote URLs) is a sequence of one-character strings, so that      *)
(* str.lower, the `in` test, startswith, replace and split are computed.    *)
(***************************************************************************)
EXTENDS Integers, Sequences, FiniteSets, TLC

(***************************************************************************)
(* Python string primitives                                                 *)
(***************************************************************************)
UpperChars == <<"A","B","C","D","E","F","G","H","I","J","K","L","M",
                "N","O","P","Q","R","S","T","U","V","W","X","Y","Z">>

LowerChars == <<"a","b","c","d","e","f","g","h","i","j","k","l","m",
                "n","o","p","q","r","s","t","u","v","w","x","y","z">>

\* str.lower() on one character
LowerChar(c) ==
    IF \E i \in DOMAIN UpperChars : UpperChars[i] = c
    THEN LowerChars[CHOOSE i \in DOMAIN UpperChars : UpperChars[i] = c]
    ELSE c

\* s.lower()
str_lower(s) == [i \in 1..Len(s) |-> LowerChar(s[i])]

\* pat in s
str_in(pat, s) ==
    \E i \in 0..(Len(s) - Len(pat)) : SubSeq(s, i + 1, i + Len(pat)) = pat

\* s.startswith(p)
startswith(s, p) == Len(s) >= Len(p) /\ SubSeq(s, 1, Len(p)) = p

\* `code is not None` in place of truthiness: an empty str passes
Truthy_NotNone(s) == TRUE

\* truthiness of a str
Truthy(s) == s # <<>>

(***************************************************************************)
(* Module constants of app.py                                               *)
(***************************************************************************)
GENERATED_FILE == "generated_code.py"
GITHUB_PAGES_DIR == "docs"
DocsCodeFile == "docs/generated_code.py"
DocsIndexFile == "docs/index.html"
DocsReadmeFile == "docs/README.md"

(***************************************************************************)
(* The requests: at most two are in flight, `Reqs` names them.              *)
(***************************************************************************)
Reqs == {"r1", "r2"}

\* The programs a request may submit; each is one opaque token of source text.
CodeHi == <<"print('hi')">>
CodeHtml == <<"print('<HTML><body>ok</body></HTML>')">>
CodeDoctype == <<"print('<!DocType html>x')">>
CodeRaise == <<"raise ValueError('boom')">>
CodeSleep == <<"import time; time.sleep(60)">>
CodePass == <<"pass">>
CodeErrHtml == <<"import sys; sys.stderr.write('<html>'); sys.exit(2)">>

Codes == {CodeHi, CodeHtml, CodeDoctype, CodeRaise, CodeSleep, CodePass, CodeErrHtml}

\* the 'auto_push' key: missing, true or false
AutoPushFields == {<<FALSE, FALSE>>, <<TRUE, TRUE>>, <<TRUE, FALSE>>}

\* request.json: no body, or an object whose keys may be missing.
Datas ==
    {[body |-> FALSE, has_code |-> FALSE, code |-> <<>>,
      has_auto_push |-> FALSE, auto_push |-> FALSE]}
    \cup
    {[body |-> TRUE, has_code |-> FALSE, code |-> <<>>,
      has_auto_push |-> ap[1], auto_push |-> ap[2]] : ap \in AutoPushFields}
    \cup
    {[body |-> TRUE, has_code |-> TRUE, code |-> c,
      has_auto_push |-> ap[1], auto_push |-> ap[2]] :
        c \in Codes \cup {<<>>}, ap \in AutoPushFields}

\* data.get('code', '') if data else ''
GetCode(d) == IF d.body /\ d.has_code THEN d.code ELSE <<>>

\* the flag never read from the request
GetAutoPush_Ignored(d) == TRUE

\* data.get('auto_push', True) if data else True
GetAutoPush(d) == IF d.body /\ d.has_auto_push THEN d.auto_push ELSE TRUE

(***************************************************************************)
(* subprocess.run: what a call can come back with                           *)
(***************************************************************************)
Completed(rc, out, err) ==
    [kind |-> "completed", returncode |-> rc, stdout |-> out, stderr |-> err,
     msg |-> <<>>]

TimeoutExpired ==
    [kind |-> "TimeoutExpired", returncode |-> -1, stdout |-> <<>>,
     \* text: timed out
     stderr |-> <<>>, msg |-> <<"t","i","m","e","d"," ","o","u","t">>]

FileNotFoundError ==
    [kind |-> "FileNotFoundError", returncode |-> -1, stdout |-> <<>>,
     \* text: No such file
     stderr |-> <<>>, msg |-> <<"N","o"," ","s","u","c","h"," ","f","i","l","e">>]

OtherError(m) ==
    [kind |-> "Exception", returncode |-> -1, stdout |-> <<>>,
     stderr |-> <<>>, msg |-> m]

\* str(e) of the exceptions the operating system raises
\* text: Permission denied
\* text: No space left
ExcMsgs == {<<"P","e","r","m","i","s","s","i","o","n"," ","d","e","n","i","e","d">>, <<
        "N","o"," ","s","p","a","c","e"," ","l","e","f","t">>}

\* What the interpreter does with each program (within the 10 s timeout or not).
Behaviour(c) ==
    \* text: hi\n
    CASE c = CodeHi -> Completed(0, <<"h","i","\n">>, <<>>)
      \* text: <HTML><body>ok</body></HTML>\n
      [] c = CodeHtml -> Completed(0, <<"<","H","T","M","L",">","<","b","o","d","y",">",
              "o","k","<","/","b","o","d","y",">","<","/","H","T","M","L",">","\n">>, <<>>)
      \* text: <!DocType html>x\n
      [] c = CodeDoctype -> Completed(0, <<"<","!","D","o","c","T","y","p","e"," ","h",
              "t","m","l",">","x","\n">>, <<>>)
      \* text: ValueError: boom\n
      [] c = CodeRaise -> Completed(1, <<>>, <<"V","a","l","u","e","E","r","r","o","r",
              ":"," ","b","o","o","m","\n">>)
      [] c = CodeSleep -> TimeoutExpired
      [] c = CodePass -> Completed(0, <<>>, <<>>)
      \* text: <html>
      [] c = CodeErrHtml -> Completed(2, <<>>, <<"<","h","t","m","l",">">>)
      \* text: SyntaxError\n
      [] OTHER -> Completed(1, <<>>, <<"S","y","n","t","a","x","E","r","r","o","r","\n">>)

\* subprocess.run(['python', path], ..., timeout=10): the interpreter may be
\* missing or fail to start; otherwise it runs what the file holds now.
RunPython(fs, path) ==
    {Behaviour(fs[path])} \cup {FileNotFoundError} \cup {OtherError(m) : m \in ExcMsgs}

(***************************************************************************)
(* State                                                                    *)
(***************************************************************************)
VARIABLES
    route,            \* per request: the Flask route it was sent to
    data,             \* per request: request.json
    pc,               \* per request: the statement it is at
    code,             \* per request: local `code`
    auto_push,        \* per request: local `auto_push`
    deployment_log,   \* per request: local `deployment_log`
    output,           \* per request: local `output`
    response,         \* per request: the jsonify(...) it returned
    hist,             \* per request: the file and subprocess calls it made
    files,            \* the working directory: path -> text
    dirs,             \* the directories that exist
    git               \* the git installation and repository of the cwd

vars == <<route, data, pc, code, auto_push, deployment_log, output, response,
          hist, files, dirs, git>>

reqvars == <<route, data>>
world == <<files, dirs, git>>

NoResponse == [status |-> "none"]

\* a call a request made: what, how it ended, and the text it was given back
EventT(op, outcome, text) == [op |-> op, outcome |-> outcome, text |-> text]
Event(op, outcome) == EventT(op, outcome, <<>>)

\* outcome of a finished subprocess.run as recorded in hist
OutcomeOf(res) ==
    IF res.kind = "completed"
    THEN (IF res.returncode = 0 THEN "rc0" ELSE "nonzero")
    ELSE res.kind

Entry(fmt, arg) == [fmt |-> fmt, arg |-> arg]

\* one request takes a step: r's locals change as given, the others keep theirs
Goto(r, label) == pc' = [pc EXCEPT ![r] = label]
Respond(r, resp) == response' = [response EXCEPT ![r] = resp] /\ Goto(r, "done")
Did(r, ev) == hist' = [hist EXCEPT ![r] = Append(@, ev)]

\* one list shared by every request instead of a local of the handler
Log_Shared(r, entries) ==
    deployment_log' = [q \in Reqs |-> deployment_log[q] \o entries]

\* deployment_log.append(...)
Log(r, entries) == deployment_log' = [deployment_log EXCEPT ![r] = @ \o entries]

(***************************************************************************)
(* Initial states: the requests in `active` have arrived, nothing has run.  *)
(***************************************************************************)
Routes == {"deploy_code", "deploy_to_github"}

RemoteUrls ==
    \* text: https://github.com/bob/site.git
    {<<"h","t","t","p","s",":","/","/","g","i","t","h","u","b",".","c","o","m","/","b",
            "o","b","/","s","i","t","e",".","g","i","t">>,
     \* text: git@github.com:bob/site
     <<"g","i","t","@","g","i","t","h","u","b",".","c","o","m",":","b","o","b","/","s",
             "i","t","e">>,
     \* text: git@github.com:bob/site.git
     <<"g","i","t","@","g","i","t","h","u","b",".","c","o","m",":","b","o","b","/","s",
             "i","t","e",".","g","i","t">>,
     \* text: https://github.com/bob/bob.github.io.git
     <<"h","t","t","p","s",":","/","/","g","i","t","h","u","b",".","c","o","m","/","b",
             "o","b","/","b","o","b",".","g","i","t","h","u","b",".","i","o",".","g",
             "i","t">>,
     \* text: https://gitlab.com/bob/site.git
     <<"h","t","t","p","s",":","/","/","g","i","t","l","a","b",".","c","o","m","/","b",
             "o","b","/","s","i","t","e",".","g","i","t">>}

InitWorld ==
    /\ files = <<>>
    /\ dirs \in {{}, {GITHUB_PAGES_DIR}}
    /\ git \in [installed : BOOLEAN, repo : BOOLEAN,
                remote : {<<>>} \cup RemoteUrls, commits : {<<>>}]

InitRequests(active) ==
    /\ route \in [Reqs -> Routes \cup {"none"}]
    /\ \A r \in Reqs : (route[r] = "none") <=> (r \notin active)
    /\ data \in [Reqs -> Datas]
    /\ \A r \in Reqs : r \notin active => data[r] = [body |-> FALSE,
           has_code |-> FALSE, code |-> <<>>, has_auto_push |-> FALSE,
           auto_push |-> FALSE]
    /\ pc = [r \in Reqs |-> IF r \in active THEN "start" ELSE "idle"]
    /\ code = [r \in Reqs |-> <<>>]
    /\ auto_push = [r \in Reqs |-> TRUE]
    /\ deployment_log = [r \in Reqs |-> <<>>]
    /\ output = [r \in Reqs |-> <<>>]
    /\ response = [r \in Reqs |-> NoResponse]
    /\ hist = [r \in Reqs |-> <<>>]

Init == InitWorld /\ InitRequests({"r1"})

(***************************************************************************)
(* /deploy_code                                                             *)
(***************************************************************************)
\* text: Execution Successful:\n\n
ExecSuccessPrefix == <<"E","x","e","c","u","t","i","o","n"," ","S","u","c","c","e","s",
        "s","f","u","l",":","\n","\n">>
\* text: Execution Failed (Runtime Error):\n\n
ExecRuntimePrefix == <<"E","x","e","c","u","t","i","o","n"," ","F","a","i","l","e","d",
        " ","(","R","u","n","t","i","m","e"," ","E","r","r","o","r",")",":","\n","\n">>
\* text: Execution Failed (Timeout): The code took too long to run.
ExecTimeoutText == <<"E","x","e","c","u","t","i","o","n"," ","F","a","i","l","e","d",
        " ","(","T","i","m","e","o","u","t",")",":"," ","T","h","e"," ","c","o","d","e",
        " ","t","o","o","k"," ","t","o","o"," ","l","o","n","g"," ","t","o"," ","r","u",
        "n",".">>
\* text: Execution Failed: Python interpreter not found.
ExecNotFoundText == <<"E","x","e","c","u","t","i","o","n"," ","F","a","i","l","e","d",
        ":"," ","P","y","t","h","o","n"," ","i","n","t","e","r","p","r","e","t","e","r",
        " ","n","o","t"," ","f","o","u","n","d",".">>
\* text: An unexpected error occurred during execution: 
ExecUnexpectedPrefix == <<"A","n"," ","u","n","e","x","p","e","c","t","e","d"," ","e",
        "r","r","o","r"," ","o","c","c","u","r","r","e","d"," ","d","u","r","i","n","g",
        " ","e","x","e","c","u","t","i","o","n",":"," ">>
\* text: Error: No code provided for execution.
ExecNoCodeText == <<"E","r","r","o","r",":"," ","N","o"," ","c","o","d","e"," ","p","r",
        "o","v","i","d","e","d"," ","f","o","r"," ","e","x","e","c","u","t","i","o","n",
        ".">>
\* text: Error saving file: 
ExecSavePrefix == <<"E","r","r","o","r"," ","s","a","v","i","n","g"," ","f","i","l","e",
        ":"," ">>

\* with open(path, 'w') as f: f.write(text) raising: open() failed and the
\* file is as it was, or write() failed and the file is left truncated
FailedWrite(fs, path) == {fs, (path :> <<>>) @@ fs}

\* lines 76-80
DeployCode_Validate(r) ==
    /\ route[r] = "deploy_code" /\ pc[r] = "start"
    /\ code' = [code EXCEPT ![r] = GetCode(data[r])]
    /\ IF ~Truthy(GetCode(data[r]))
       THEN Respond(r, [output |-> ExecNoCodeText])
       ELSE Goto(r, "save") /\ UNCHANGED response
    /\ UNCHANGED <<reqvars, auto_push, deployment_log, output, hist, world>>

\* lines 83-87: open(GENERATED_FILE, 'w') and write, or the except branch
DeployCode_Save(r) ==
    /\ route[r] = "deploy_code" /\ pc[r] = "save"
    /\ \/ /\ files' = (GENERATED_FILE :> code[r]) @@ files
          /\ Did(r, Event("write generated_code.py", "ok"))
          /\ Goto(r, "run")
          /\ UNCHANGED response
       \/ \E m \in ExcMsgs :
            /\ Did(r, Event("write generated_code.py", "Exception"))
            /\ Respond(r, [output |-> ExecSavePrefix \o m])
            /\ files' \in FailedWrite(files, GENERATED_FILE)
    /\ UNCHANGED <<reqvars, code, auto_push, deployment_log, output, dirs, git>>

\* a runtime error answered with the bare stderr, its tag left out
ExecOutput_Untagged(res) ==
    CASE res.kind = "completed" /\ res.returncode = 0 ->
            ExecSuccessPrefix \o res.stdout
      [] res.kind = "completed" /\ res.returncode # 0 -> res.stderr
      [] res.kind = "TimeoutExpired" -> ExecTimeoutText
      [] res.kind = "FileNotFoundError" -> ExecNotFoundText
      [] OTHER -> ExecUnexpectedPrefix \o res.msg

\* a runtime error answered with stdout where stderr belongs
ExecOutput_Stdout(res) ==
    CASE res.kind = "completed" /\ res.returncode = 0 ->
            ExecSuccessPrefix \o res.stdout
      [] res.kind = "completed" /\ res.returncode # 0 ->
            ExecRuntimePrefix \o res.stdout
      [] res.kind = "TimeoutExpired" -> ExecTimeoutText
      [] res.kind = "FileNotFoundError" -> ExecNotFoundText
      [] OTHER -> ExecUnexpectedPrefix \o res.msg

\* lines 99-108: the output string for each way subprocess.run(check=True) ends
ExecOutput(res) ==
    CASE res.kind = "completed" /\ res.returncode = 0 ->
            ExecSuccessPrefix \o res.stdout
      [] res.kind = "completed" /\ res.returncode # 0 ->
            ExecRuntimePrefix \o res.stderr
      [] res.kind = "TimeoutExpired" -> ExecTimeoutText
      [] res.kind = "FileNotFoundError" -> ExecNotFoundText
      [] OTHER -> ExecUnexpectedPrefix \o res.msg

\* lines 90-113
DeployCode_Run(r) ==
    /\ route[r] = "deploy_code" /\ pc[r] = "run"
    /\ \E res \in RunPython(files, GENERATED_FILE) :
          /\ Did(r, Event("python", OutcomeOf(res)))
          /\ output' = [output EXCEPT ![r] = ExecOutput(res)]
          /\ Respond(r, [output |-> ExecOutput(res)])
    /\ UNCHANGED <<reqvars, code, auto_push, deployment_log, world>>

(***************************************************************************)
(* /deploy_to_github: results                                               *)
(***************************************************************************)
\* lines 337-350: the two except clauses around the whole pipeline
ExceptResponse(log, res) ==
    IF res.kind = "TimeoutExpired"
    THEN [status |-> "error",
          message |-> Entry("Deployment timed out", <<>>),
          log |-> Append(log, Entry("Operation timed out", <<>>))]
    ELSE [status |-> "error",
          message |-> Entry("Deployment failed: {str(e)}", res.msg),
          log |-> Append(log, Entry("Error: {str(e)}", res.msg))]

\* an exception leaves the try block: the log gets its entry and is returned
Fail(r, res) ==
    /\ deployment_log' = [deployment_log EXCEPT ![r] = ExceptResponse(@, res).log]
    /\ Respond(r, ExceptResponse(deployment_log[r], res))

\* lines 233-239
AddOriginInstructions ==
    \* text: \nGit remote not configured!\n\nPlease run these commands:\n1. git remote add origin https://github.com/[username]/[repo-name].git\n2. Then try deploying again for automatic push\n
    <<"\n","G","i","t"," ","r","e","m","o","t","e"," ","n","o","t"," ","c","o","n","f",
            "i","g","u","r","e","d","!","\n","\n","P","l","e","a","s","e"," ","r","u",
            "n"," ","t","h","e","s","e"," ","c","o","m","m","a","n","d","s",":","\n",
            "1","."," ","g","i","t"," ","r","e","m","o","t","e"," ","a","d","d"," ","o",
            "r","i","g","i","n"," ","h","t","t","p","s",":","/","/","g","i","t","h","u",
            "b",".","c","o","m","/","[","u","s","e","r","n","a","m","e","]","/","[","r",
            "e","p","o","-","n","a","m","e","]",".","g","i","t","\n","2","."," ","T",
            "h","e","n"," ","t","r","y"," ","d","e","p","l","o","y","i","n","g"," ","a",
            "g","a","i","n"," ","f","o","r"," ","a","u","t","o","m","a","t","i","c"," ",
            "p","u","s","h","\n">>

\* lines 329-334
ManualInstructions ==
    \* text: \nManual deployment steps:\n1. git add docs/\n2. git commit -m 'Deploy to GitHub Pages'\n3. git push origin main\n
    <<"\n","M","a","n","u","a","l"," ","d","e","p","l","o","y","m","e","n","t"," ","s",
            "t","e","p","s",":","\n","1","."," ","g","i","t"," ","a","d","d"," ","d",
            "o","c","s","/","\n","2","."," ","g","i","t"," ","c","o","m","m","i","t",
            " ","-","m"," ","'","D","e","p","l","o","y"," ","t","o"," ","G","i","t","H",
            "u","b"," ","P","a","g","e","s","'","\n","3","."," ","g","i","t"," ","p",
            "u","s","h"," ","o","r","i","g","i","n"," ","m","a","i","n","\n">>

\* lines 229-240
RemoteMissingResponse(log) ==
    [status |-> "partial",
     message |-> Entry("Files created but Git remote not configured", <<>>),
     log |-> log,
     instructions |-> AddOriginInstructions]

\* lines 302-306
PushSuccessResponse(log) ==
    [status |-> "success",
     message |-> Entry("Automatically deployed to GitHub Pages!", <<>>),
     log |-> log]

\* the push-failure branch answering like the success branch
PushFailedResponse_Success(log, error_msg) ==
    [status |-> "success",
     message |-> Entry("Automatically deployed to GitHub Pages!", <<>>),
     log |-> log,
     error |-> error_msg]

\* the push-failure branch answering status 'error'
PushFailedResponse_Error(log, error_msg) ==
    [status |-> "error",
     message |-> Entry("Files created and committed, but push failed", <<>>),
     log |-> log,
     error |-> error_msg]

\* lines 317-322
PushFailedResponse(log, error_msg) ==
    [status |-> "partial",
     message |-> Entry("Files created and committed, but push failed", <<>>),
     log |-> log,
     error |-> error_msg]

\* lines 325-335
ManualResponse(log) ==
    [status |-> "success",
     message |-> Entry("Files created successfully", <<>>),
     log |-> log,
     instructions |-> ManualInstructions]

(***************************************************************************)
(* /deploy_to_github: materializing docs/                                   *)
(***************************************************************************)
\* lines 119-126
DeployToGithub_Validate(r) ==
    /\ route[r] = "deploy_to_github" /\ pc[r] = "start"
    /\ code' = [code EXCEPT ![r] = GetCode(data[r])]
    /\ auto_push' = [auto_push EXCEPT ![r] = GetAutoPush(data[r])]
    /\ IF ~Truthy(GetCode(data[r]))
       THEN Respond(r, [status |-> "error",
                        message |-> Entry("No code provided for deployment.", <<>>)])
       ELSE Goto(r, "mkdir") /\ UNCHANGED response
    /\ UNCHANGED <<reqvars, deployment_log, output, hist, world>>

\* lines 130-132: Path('docs').mkdir(exist_ok=True)
DeployToGithub_Mkdir(r) ==
    /\ route[r] = "deploy_to_github" /\ pc[r] = "mkdir"
    /\ \/ /\ dirs' = dirs \cup {GITHUB_PAGES_DIR}
          /\ Did(r, Event("mkdir docs", "ok"))
          /\ Log(r, <<Entry("Created /docs directory", <<>>)>>)
          /\ Goto(r, "save_code")
          /\ UNCHANGED response
       \/ \E m \in ExcMsgs :
            /\ Did(r, Event("mkdir docs", "Exception"))
            /\ Fail(r, OtherError(m))
            /\ UNCHANGED dirs
    /\ UNCHANGED <<reqvars, code, auto_push, output, files, git>>

\* lines 135-138
DeployToGithub_SaveCode(r) ==
    /\ route[r] = "deploy_to_github" /\ pc[r] = "save_code"
    /\ \/ /\ files' = (DocsCodeFile :> code[r]) @@ files
          /\ Did(r, Event("write docs/generated_code.py", "ok"))
          /\ Log(r, <<Entry("Saved Python code", <<>>)>>)
          /\ Goto(r, "run_code")
          /\ UNCHANGED response
       \/ \E m \in ExcMsgs :
            /\ Did(r, Event("write docs/generated_code.py", "Exception"))
            /\ Fail(r, OtherError(m))
            /\ files' \in FailedWrite(files, DocsCodeFile)
    /\ UNCHANGED <<reqvars, code, auto_push, output, dirs, git>>

\* line 149: result.stdout if result.stdout else result.stderr
ChosenOutput(res) == IF Truthy(res.stdout) THEN res.stdout ELSE res.stderr

\* lines 141-149: subprocess.run(check=False, timeout=10)
DeployToGithub_RunCode(r) ==
    /\ route[r] = "deploy_to_github" /\ pc[r] = "run_code"
    /\ \E res \in RunPython(files, DocsCodeFile) :
          /\ Did(r, Event("python", OutcomeOf(res)))
          /\ IF res.kind = "completed"
             THEN /\ output' = [output EXCEPT ![r] = ChosenOutput(res)]
                  /\ Goto(r, "write_index")
                  /\ UNCHANGED <<response, deployment_log>>
             ELSE /\ Fail(r, res)
                  /\ UNCHANGED output
    /\ UNCHANGED <<reqvars, code, auto_push, world>>

\* the two markers looked for without lower()
LooksLikeHtml_CaseSensitive(out) ==
    \* text: <html
    \* text: <!doctype
    str_in(<<"<","h","t","m","l">>, out) \/ str_in(<<"<","!","d","o","c","t","y","p","e">>, out)

\* line 152
LooksLikeHtml(out) ==
    \* text: <html
    \* text: <!doctype
    str_in(<<"<","h","t","m","l">>, str_lower(out)) \/ str_in(<<"<","!","d","o","c","t",
            "y","p","e">>, str_lower(out))

WrapperHead ==
    <<"<!DOCTYPE html>\n", "<html lang=\"en\">\n", "<head>\n",
      "    <meta charset=\"UTF-8\">\n",
      "    <meta name=\"viewport\" content=\"width=device-width, initial-scale=1.0\">\n",
      "    <title>Generated Output</title>\n",
      "    <script src=\"https://cdn.tailwindcss.com\"></script>\n",
      "</head>\n", "<body class=\"bg-gray-900 text-white min-h-screen p-8\">\n",
      "    <div class=\"max-w-4xl mx-auto\">\n",
      "        <h1 class=\"text-4xl font-bold mb-6 text-blue-400\">Generated Output</h1>\n",
      "        <div class=\"bg-gray-800 rounded-lg p-6 shadow-xl\">\n",
      "            <pre class=\"whitespace-pre-wrap font-mono text-green-400\">">>

WrapperTail ==
    <<"</pre>\n", "        </div>\n",
      "        <footer class=\"mt-8 text-center text-gray-400\">\n",
      "            <p>Generated by LLM Code Deployment Tool</p>\n",
      "        </footer>\n", "    </div>\n", "</body>\n", "</html>">>

\* lines 160-179
html_content(out) == WrapperHead \o out \o WrapperTail

\* lines 152-184: what index.html receives
IndexContent(out) == IF LooksLikeHtml(out) THEN out ELSE html_content(out)

IndexEntry(out) ==
    IF LooksLikeHtml(out)
    THEN Entry("Generated HTML page", <<>>)
    ELSE Entry("Created HTML wrapper", <<>>)

\* lines 152-184
DeployToGithub_WriteIndex(r) ==
    /\ route[r] = "deploy_to_github" /\ pc[r] = "write_index"
    /\ \/ /\ files' = (DocsIndexFile :> IndexContent(output[r])) @@ files
          /\ Did(r, Event("write docs/index.html", "ok"))
          /\ Log(r, <<IndexEntry(output[r])>>)
          /\ Goto(r, "write_readme")
          /\ UNCHANGED response
       \/ \E m \in ExcMsgs :
            /\ Did(r, Event("write docs/index.html", "Exception"))
            /\ Fail(r, OtherError(m))
            /\ files' \in FailedWrite(files, DocsIndexFile)
    /\ UNCHANGED <<reqvars, code, auto_push, output, dirs, git>>

\* lines 189-200 (the backquotes of the source are written as quotes)
ReadmeText ==
    <<"# Generated Code Output\n", "\n",
      "This page was automatically generated and deployed by the LLM Code Deployment Tool.\n",
      "\n", "## Auto-Deployment\n", "\n",
      "This project uses automated GitHub Pages deployment.\n", "\n",
      "## Source Code\n", "\n",
      "The Python code that generated this output is available in 'generated_code.py'.\n">>

\* the git steps entered whatever auto_push says
DeployToGithub_WriteReadme_AlwaysGit(r) ==
    /\ route[r] = "deploy_to_github" /\ pc[r] = "write_readme"
    /\ \/ /\ files' = (DocsReadmeFile :> ReadmeText) @@ files
          /\ Did(r, Event("write docs/README.md", "ok"))
          /\ Log(r, <<Entry("Created README.md", <<>>),
                      Entry("\nStarting automated Git deployment...", <<>>)>>)
          /\ Goto(r, "git_check")
          /\ UNCHANGED response
       \/ \E m \in ExcMsgs :
            /\ Did(r, Event("write docs/README.md", "Exception"))
            /\ Fail(r, OtherError(m))
            /\ files' \in FailedWrite(files, DocsReadmeFile)
    /\ UNCHANGED <<reqvars, code, auto_push, output, dirs, git>>

\* lines 187-205 and 323-335: write README.md, then branch on auto_push
DeployToGithub_WriteReadme(r) ==
    /\ route[r] = "deploy_to_github" /\ pc[r] = "write_readme"
    /\ \/ /\ files' = (DocsReadmeFile :> ReadmeText) @@ files
          /\ Did(r, Event("write docs/README.md", "ok"))
          /\ IF auto_push[r]
             THEN /\ Log(r, <<Entry("Created README.md", <<>>),
                              Entry("\nStarting automated Git deployment...", <<>>)>>)
                  /\ Goto(r, "git_check")
                  /\ UNCHANGED response
             ELSE /\ Log(r, <<Entry("Created README.md", <<>>)>>)
                  /\ Respond(r, ManualResponse(
                        Append(deployment_log[r], Entry("Created README.md", <<>>))))
       \/ \E m \in ExcMsgs :
            /\ Did(r, Event("write docs/README.md", "Exception"))
            /\ Fail(r, OtherError(m))
            /\ files' \in FailedWrite(files, DocsReadmeFile)
    /\ UNCHANGED <<reqvars, code, auto_push, output, dirs, git>>

(***************************************************************************)
(* git, as the subprocess calls of deploy_to_github see it                  *)
(***************************************************************************)
\* git rev-parse --git-dir (lines 208-213)
GitRevParse(g) ==
    IF ~g.installed THEN {FileNotFoundError}
    \* text: .git\n
    ELSE IF g.repo THEN {Completed(0, <<".","g","i","t","\n">>, <<>>)}
    \* text: fatal: not a git repository\n
    ELSE {Completed(128, <<>>, <<"f","a","t","a","l",":"," ","n","o","t"," ","a"," ",
            "g","i","t"," ","r","e","p","o","s","i","t","o","r","y","\n">>)}

\* git init with check=True (line 217): a non-zero exit raises CalledProcessError
GitInit(g) ==
    {Completed(0, <<>>, <<>>),
     \* text: Command '['git', 'init']' returned non-zero exit status 1.
     OtherError(<<"C","o","m","m","a","n","d"," ","'","[","'","g","i","t","'",","," ",
             "'","i","n","i","t","'","]","'"," ","r","e","t","u","r","n","e","d"," ",
             "n","o","n","-","z","e","r","o"," ","e","x","i","t"," ","s","t","a","t",
             "u","s"," ","1",".">>)}

\* git remote get-url origin (lines 221-226 and 282-287)
GitRemoteGetUrl(g) ==
    IF g.remote # <<>>
    THEN Completed(0, g.remote \o <<"\n">>, <<>>)
    \* text: error: No such remote 'origin'\n
    ELSE Completed(2, <<>>, <<"e","r","r","o","r",":"," ","N","o"," ","s","u","c","h",
            " ","r","e","m","o","t","e"," ","'","o","r","i","g","i","n","'","\n">>)

\* git add docs/ (lines 243-248)
GitAdd(g) ==
    {Completed(0, <<>>, <<>>),
     \* text: fatal: Unable to create index.lock\n
     Completed(128, <<>>, <<"f","a","t","a","l",":"," ","U","n","a","b","l","e"," ","t",
             "o"," ","c","r","e","a","t","e"," ","i","n","d","e","x",".","l","o","c",
             "k","\n">>)}

\* git commit -m ... (lines 252-257)
GitCommit(g) ==
    \* text: [main 1a2b3c] Auto-deploy\n
    {Completed(0, <<"[","m","a","i","n"," ","1","a","2","b","3","c","]"," ","A","u","t",
            "o","-","d","e","p","l","o","y","\n">>, <<>>),
     \* text: On branch main\nnothing to commit, working tree clean\n
     Completed(1, <<"O","n"," ","b","r","a","n","c","h"," ","m","a","i","n","\n","n",
             "o","t","h","i","n","g"," ","t","o"," ","c","o","m","m","i","t",","," ",
             "w","o","r","k","i","n","g"," ","t","r","e","e"," ","c","l","e","a","n",
             "\n">>, <<>>),
     \* text: Nothing To Commit\n
     Completed(1, <<"N","o","t","h","i","n","g"," ","T","o"," ","C","o","m","m","i","t",
             "\n">>, <<>>),
     \* text: nothing added to commit but untracked files present\n
     Completed(1, <<"n","o","t","h","i","n","g"," ","a","d","d","e","d"," ","t","o"," ",
             "c","o","m","m","i","t"," ","b","u","t"," ","u","n","t","r","a","c","k",
             "e","d"," ","f","i","l","e","s"," ","p","r","e","s","e","n","t","\n">>, <<>>),
     \* text: fatal: unable to auto-detect email address\n
     Completed(128, <<>>, <<"f","a","t","a","l",":"," ","u","n","a","b","l","e"," ","t",
             "o"," ","a","u","t","o","-","d","e","t","e","c","t"," ","e","m","a","i",
             "l"," ","a","d","d","r","e","s","s","\n">>)}

\* stderr of a failed git push
PushErrs ==
    \* text: ! [rejected] main -> main (fetch first)\n
    {<<"!"," ","[","r","e","j","e","c","t","e","d","]"," ","m","a","i","n"," ","-",">",
            " ","m","a","i","n"," ","(","f","e","t","c","h"," ","f","i","r","s","t",")",
            "\n">>,
     \* text: ! [REJECTED] main\n
     <<"!"," ","[","R","E","J","E","C","T","E","D","]"," ","m","a","i","n","\n">>,
     \* text: remote: Authentication failed\n
     <<"r","e","m","o","t","e",":"," ","A","u","t","h","e","n","t","i","c","a","t","i",
             "o","n"," ","f","a","i","l","e","d","\n">>,
     \* text: fatal: could not read Username\n
     <<"f","a","t","a","l",":"," ","c","o","u","l","d"," ","n","o","t"," ","r","e","a",
             "d"," ","U","s","e","r","n","a","m","e","\n">>,
     \* text: ! [rejected] Authentication\n
     <<"!"," ","[","r","e","j","e","c","t","e","d","]"," ","A","u","t","h","e","n","t",
             "i","c","a","t","i","o","n","\n">>,
     \* text: fatal: unable to access\n
     <<"f","a","t","a","l",":"," ","u","n","a","b","l","e"," ","t","o"," ","a","c","c",
             "e","s","s","\n">>,
     <<>>}

\* text: fatal: 'origin' does not appear to be a git repository\n
NoOriginErr == <<"f","a","t","a","l",":"," ","'","o","r","i","g","i","n","'"," ","d",
        "o","e","s"," ","n","o","t"," ","a","p","p","e","a","r"," ","t","o"," ","b","e",
        " ","a"," ","g","i","t"," ","r","e","p","o","s","i","t","o","r","y","\n">>

\* git push origin main with timeout=30 (lines 269-275)
GitPush(g) ==
    IF g.remote = <<>>
    THEN {Completed(128, <<>>, NoOriginErr)}
    \* text: To origin\n
    ELSE {Completed(0, <<>>, <<"T","o"," ","o","r","i","g","i","n","\n">>), TimeoutExpired}
         \cup {Completed(1, <<>>, e) : e \in PushErrs}

(***************************************************************************)
(* More Python string primitives, for the Pages URL                         *)
(***************************************************************************)
Whitespace == {" ", "\n", "\t", "\r"}

RECURSIVE str_lstrip(_)
str_lstrip(s) ==
    IF s # <<>> /\ Head(s) \in Whitespace THEN str_lstrip(Tail(s)) ELSE s

RECURSIVE str_rstrip(_)
str_rstrip(s) ==
    IF s # <<>> /\ s[Len(s)] \in Whitespace
    THEN str_rstrip(SubSeq(s, 1, Len(s) - 1))
    ELSE s

\* s.strip()
str_strip(s) == str_rstrip(str_lstrip(s))

\* s.replace(old, new), old non-empty
RECURSIVE str_replace(_, _, _)
str_replace(s, old, new) ==
    IF Len(s) < Len(old) THEN s
    ELSE IF SubSeq(s, 1, Len(old)) = old
         THEN new \o str_replace(SubSeq(s, Len(old) + 1, Len(s)), old, new)
         ELSE <<Head(s)>> \o str_replace(Tail(s), old, new)

\* s.split(sep), sep one character
RECURSIVE str_split(_, _)
str_split(s, sep) ==
    IF \A i \in 1..Len(s) : s[i] # sep THEN <<s>>
    ELSE LET i == CHOOSE k \in 1..Len(s) :
                     s[k] = sep /\ \A j \in 1..(k - 1) : s[j] # sep
         IN <<SubSeq(s, 1, i - 1)>> \o str_split(SubSeq(s, i + 1, Len(s)), sep)

Last(seq) == seq[Len(seq)]

(***************************************************************************)
(* /deploy_to_github: the automated git operations                          *)
(***************************************************************************)
\* the remote queried in an existing repository too
DeployToGithub_GitCheck_AlwaysRemote(r) ==
    /\ route[r] = "deploy_to_github" /\ pc[r] = "git_check"
    /\ \E git_check \in GitRevParse(git) :
          /\ Did(r, Event("git rev-parse", OutcomeOf(git_check)))
          /\ IF git_check.kind # "completed"
             THEN Fail(r, git_check)
             ELSE /\ Goto(r, IF git_check.returncode # 0 THEN "git_init"
                                                         ELSE "remote_check")
                  /\ UNCHANGED <<response, deployment_log>>
    /\ UNCHANGED <<reqvars, code, auto_push, output, world>>

\* lines 208-215
DeployToGithub_GitCheck(r) ==
    /\ route[r] = "deploy_to_github" /\ pc[r] = "git_check"
    /\ \E git_check \in GitRevParse(git) :
          /\ Did(r, Event("git rev-parse", OutcomeOf(git_check)))
          /\ IF git_check.kind # "completed"
             THEN Fail(r, git_check)
             ELSE /\ Goto(r, IF git_check.returncode # 0 THEN "git_init" ELSE "git_add")
                  /\ UNCHANGED <<response, deployment_log>>
    /\ UNCHANGED <<reqvars, code, auto_push, output, world>>

\* lines 217-218
DeployToGithub_GitInit(r) ==
    /\ route[r] = "deploy_to_github" /\ pc[r] = "git_init"
    /\ \E res \in GitInit(git) :
          /\ Did(r, Event("git init", OutcomeOf(res)))
          /\ IF res.kind # "completed"
             THEN Fail(r, res) /\ UNCHANGED git
             ELSE /\ git' = [git EXCEPT !.repo = TRUE]
                  /\ Log(r, <<Entry("Initialized Git repository", <<>>)>>)
                  /\ Goto(r, "remote_check")
                  /\ UNCHANGED response
    /\ UNCHANGED <<reqvars, code, auto_push, output, files, dirs>>

\* the remote query without the early return of lines 228-240
DeployToGithub_RemoteCheck_NoReturn(r) ==
    /\ route[r] = "deploy_to_github" /\ pc[r] = "remote_check"
    /\ Did(r, Event("git remote get-url", OutcomeOf(GitRemoteGetUrl(git))))
    /\ Goto(r, "git_add")
    /\ UNCHANGED <<reqvars, code, auto_push, output, deployment_log, response, world>>

\* lines 221-240
DeployToGithub_RemoteCheck(r) ==
    /\ route[r] = "deploy_to_github" /\ pc[r] = "remote_check"
    /\ LET remote_check == GitRemoteGetUrl(git) IN
          /\ Did(r, Event("git remote get-url", OutcomeOf(remote_check)))
          /\ IF remote_check.returncode # 0
             THEN Respond(r, RemoteMissingResponse(deployment_log[r]))
             ELSE Goto(r, "git_add") /\ UNCHANGED response
    /\ UNCHANGED <<reqvars, code, auto_push, output, deployment_log, world>>

\* lines 243-249
DeployToGithub_GitAdd(r) ==
    /\ route[r] = "deploy_to_github" /\ pc[r] = "git_add"
    /\ \E add_result \in GitAdd(git) :
          Did(r, Event("git add", OutcomeOf(add_result)))
    /\ Log(r, <<Entry("Added files to Git", <<>>)>>)
    /\ Goto(r, "git_commit")
    /\ UNCHANGED <<reqvars, code, auto_push, output, response, world>>

\* the phrase looked for in stderr instead of stdout
CommitEntry_Stderr(commit_result) ==
    IF commit_result.returncode = 0
    THEN Entry("Committed changes", <<>>)
    \* text: nothing to commit
    ELSE IF str_in(<<"n","o","t","h","i","n","g"," ","t","o"," ","c","o","m","m","i","t">>, str_lower(commit_result.stderr))
         THEN Entry("No changes to commit", <<>>)
         ELSE Entry("Commit warning: {commit_result.stderr}", commit_result.stderr)

\* lines 259-266: the log entry for the commit
CommitEntry(commit_result) ==
    IF commit_result.returncode = 0
    THEN Entry("Committed changes", <<>>)
    \* text: nothing to commit
    ELSE IF str_in(<<"n","o","t","h","i","n","g"," ","t","o"," ","c","o","m","m","i","t">>, str_lower(commit_result.stdout))
         THEN Entry("No changes to commit", <<>>)
         ELSE Entry("Commit warning: {commit_result.stderr}", commit_result.stderr)

\* a commit that returns non-zero ends the request with status 'error'
DeployToGithub_GitCommit_Abort(r) ==
    /\ route[r] = "deploy_to_github" /\ pc[r] = "git_commit"
    /\ \E commit_result \in GitCommit(git) :
          /\ Did(r, EventT("git commit", OutcomeOf(commit_result),
                            commit_result.stdout))
          /\ git' = IF commit_result.returncode = 0
                    THEN [git EXCEPT !.commits = Append(@, r)]
                    ELSE git
          /\ Log(r, <<CommitEntry(commit_result)>>)
          /\ IF commit_result.returncode = 0
             THEN Goto(r, "git_push") /\ UNCHANGED response
             ELSE Respond(r, [status |-> "error",
                              message |-> Entry("Commit failed", <<>>),
                              log |-> Append(deployment_log[r],
                                             CommitEntry(commit_result))])
    /\ UNCHANGED <<reqvars, code, auto_push, output, files, dirs>>

\* lines 252-266
DeployToGithub_GitCommit(r) ==
    /\ route[r] = "deploy_to_github" /\ pc[r] = "git_commit"
    /\ \E commit_result \in GitCommit(git) :
          /\ Did(r, EventT("git commit", OutcomeOf(commit_result),
                            commit_result.stdout))
          /\ git' = IF commit_result.returncode = 0
                    THEN [git EXCEPT !.commits = Append(@, r)]
                    ELSE git
          /\ Log(r, <<CommitEntry(commit_result)>>)
    /\ Goto(r, "git_push")
    /\ UNCHANGED <<reqvars, code, auto_push, output, response, files, dirs>>

\* lines 313 and 315: the two tips
PullTip == "\nTip: Try running 'git pull origin main' first"
CredentialsTip == "\nTip: Check your Git credentials or use SSH keys"

\* the two tests as independent ifs instead of if / elif
PushTip_BothIfs(error_msg) ==
    \* text: rejected
    (IF str_in(<<"r","e","j","e","c","t","e","d">>, str_lower(error_msg))
     THEN <<Entry(PullTip, <<>>)>> ELSE <<>>)
    \o
    \* text: could not read
    (IF \/ str_in(<<"c","o","u","l","d"," ","n","o","t"," ","r","e","a","d">>, str_lower(error_msg))
        \* text: authentication
        \/ str_in(<<"a","u","t","h","e","n","t","i","c","a","t","i","o","n">>, str_lower(error_msg))
     THEN <<Entry(CredentialsTip, <<>>)>> ELSE <<>>)

\* lines 312-315: the remediation tip for a failed push
PushTip(error_msg) ==
    \* text: rejected
    IF str_in(<<"r","e","j","e","c","t","e","d">>, str_lower(error_msg))
    THEN <<Entry(PullTip, <<>>)>>
    \* text: could not read
    ELSE IF \/ str_in(<<"c","o","u","l","d"," ","n","o","t"," ","r","e","a","d">>, str_lower(error_msg))
            \* text: authentication
            \/ str_in(<<"a","u","t","h","e","n","t","i","c","a","t","i","o","n">>, str_lower(error_msg))
         THEN <<Entry(CredentialsTip, <<>>)>>
         ELSE <<>>

\* lines 309-315: what a failed push appends to the log
PushFailedEntries(error_msg) ==
    <<Entry("Push failed: {error_msg}", error_msg)>> \o PushTip(error_msg)

\* lines 269-279 and 307-322
DeployToGithub_GitPush(r) ==
    /\ route[r] = "deploy_to_github" /\ pc[r] = "git_push"
    /\ \E push_result \in GitPush(git) :
          /\ Did(r, EventT("git push", OutcomeOf(push_result),
                            push_result.stderr))
          /\ CASE push_result.kind # "completed" -> Fail(r, push_result)
               [] push_result.kind = "completed" /\ push_result.returncode = 0 ->
                    /\ Log(r, <<Entry("Pushed to GitHub successfully!", <<>>),
                                Entry("\nDEPLOYMENT COMPLETE!", <<>>)>>)
                    /\ Goto(r, "pages_url")
                    /\ UNCHANGED response
               [] OTHER ->
                    /\ Log(r, PushFailedEntries(push_result.stderr))
                    /\ Respond(r, PushFailedResponse(
                          deployment_log[r] \o PushFailedEntries(push_result.stderr),
                          push_result.stderr))
    /\ UNCHANGED <<reqvars, code, auto_push, output, world>>

\* lines 293-297
pages_url(remote_url) ==
    \* text: .git
    LET parts == str_split(str_replace(remote_url, <<".","g","i","t">>, <<>>), "/")
        username == Last(str_split(parts[Len(parts) - 1], ":"))
        repo == parts[Len(parts)]
    \* text: https://
    \* text: .github.io/
    IN <<"h","t","t","p","s",":","/","/">> \o username \o <<".","g","i","t","h","u","b",
            ".","i","o","/">> \o repo \o <<"/">>

\* lines 289-300: the entries about the published page
PagesEntries(remote_result) ==
    IF remote_result.returncode # 0 THEN <<>>
    ELSE LET remote_url == str_strip(remote_result.stdout) IN
         \* text: github.com
         IF ~str_in(<<"g","i","t","h","u","b",".","c","o","m">>, remote_url) THEN <<>>
         \* text: .git
         ELSE IF Len(str_split(str_replace(remote_url, <<".","g","i","t">>, <<>>), "/")) < 2
              THEN <<>>
              ELSE <<Entry("\nYour site will be live at:\n   {pages_url}",
                           pages_url(remote_url)),
                     Entry("\nNote: First deployment may take 1-2 minutes", <<>>),
                     Entry("Make sure GitHub Pages is enabled in repo settings!", <<>>)>>

\* lines 282-306
DeployToGithub_PagesUrl(r) ==
    /\ route[r] = "deploy_to_github" /\ pc[r] = "pages_url"
    /\ LET remote_result == GitRemoteGetUrl(git) IN
          /\ Did(r, Event("git remote get-url", OutcomeOf(remote_result)))
          /\ Log(r, PagesEntries(remote_result))
          /\ Respond(r, PushSuccessResponse(
                deployment_log[r] \o PagesEntries(remote_result)))
    /\ UNCHANGED <<reqvars, code, auto_push, output, world>>

(***************************************************************************)
(* Specification                                                            *)
(***************************************************************************)
Next ==
    \E r \in Reqs :
        \/ DeployCode_Validate(r)
        \/ DeployCode_Save(r)
        \/ DeployCode_Run(r)
        \/ DeployToGithub_Validate(r)
        \/ DeployToGithub_Mkdir(r)
        \/ DeployToGithub_SaveCode(r)
        \/ DeployToGithub_RunCode(r)
        \/ DeployToGithub_WriteIndex(r)
        \/ DeployToGithub_WriteReadme(r)
        \/ DeployToGithub_GitCheck(r)
        \/ DeployToGithub_GitInit(r)
        \/ DeployToGithub_RemoteCheck(r)
        \/ DeployToGithub_GitAdd(r)
        \/ DeployToGithub_GitCommit(r)
        \/ DeployToGithub_GitPush(r)
        \/ DeployToGithub_PagesUrl(r)

Spec == Init /\ [][Next]_vars

(***************************************************************************)
(* Two requests in flight at once.  Flask serves each request on its own    *)
(* thread; both handlers work in the same directory and repository.         *)
(***************************************************************************)
\* what the two concurrent requests submit: different programs, auto_push absent
ConcCode == [r \in Reqs |-> IF r = "r1" THEN CodeHi ELSE CodeHtml]

ConcData(r) ==
    [body |-> TRUE, has_code |-> TRUE, code |-> ConcCode[r],
     has_auto_push |-> FALSE, auto_push |-> FALSE]

ConcRemote ==
    \* text: https://github.com/bob/site.git
    <<"h","t","t","p","s",":","/","/","g","i","t","h","u","b",".","c","o","m","/","b",
            "o","b","/","s","i","t","e",".","g","i","t">>

\* both requests are sent to the same route, in a directory that has no docs/
\* and is not yet a repository (the request that gets there first runs git init)
InitConc ==
    /\ files = <<>>
    /\ dirs = {}
    /\ git = [installed |-> TRUE, repo |-> FALSE, remote |-> ConcRemote,
              commits |-> <<>>]
    /\ InitRequests(Reqs)
    /\ route["r1"] = route["r2"]
    /\ \A r \in Reqs : data[r] = ConcData(r)

SpecConc == InitConc /\ [][Next]_vars

(***************************************************************************)
(* Vocabulary of the properties                                             *)
(***************************************************************************)
Publish(r) == route[r] = "deploy_to_github"
Execute(r) == route[r] = "deploy_code"
Done(r) == pc[r] = "done"

\* the request carried a non-empty 'code'
CodeGiven(r) == data[r].body /\ data[r].has_code /\ data[r].code # <<>>

\* the request carried 'auto_push': false
AutoPushOff(r) == data[r].body /\ data[r].has_auto_push /\ ~data[r].auto_push

\* the calls request r has made so far
Ops(r) == {hist[r][i].op : i \in DOMAIN hist[r]}
Has(r, op, outcome) ==
    \E i \in DOMAIN hist[r] : hist[r][i].op = op /\ hist[r][i].outcome = outcome

RaisedOutcomes == {"Exception", "TimeoutExpired", "FileNotFoundError"}
Raised(r) == \E i \in DOMAIN hist[r] : hist[r][i].outcome \in RaisedOutcomes

\* git init succeeded and the remote query that follows it found no origin
RemoteMissingAfterInit(r) ==
    \E i \in DOMAIN hist[r] :
        /\ hist[r][i].op = "git init" /\ hist[r][i].outcome = "rc0"
        /\ i + 1 \in DOMAIN hist[r]
        /\ hist[r][i + 1].op = "git remote get-url"
        /\ hist[r][i + 1].outcome = "nonzero"

PushOk(r) == Has(r, "git push", "rc0")
PushNonZero(r) == Has(r, "git push", "nonzero")
PushTimedOut(r) == Has(r, "git push", "TimeoutExpired")

GitOps == {"git rev-parse", "git init", "git remote get-url", "git add",
           "git commit", "git push"}
WriteOps == {"write generated_code.py", "write docs/generated_code.py",
             "write docs/index.html", "write docs/README.md"}

\* the status the stage at which the pipeline stopped stands for
StageStatus(r) ==
    IF ~CodeGiven(r) \/ Raised(r) THEN "error"
    ELSE IF RemoteMissingAfterInit(r) \/ PushNonZero(r) THEN "partial"
    ELSE "success"

(***************************************************************************)
(* C1: the terminal status of a Publish request is a function of the stage  *)
(* at which the pipeline stopped: 'success' only in manual mode or after a  *)
(* push that returned 0, 'partial' only after the remote was found missing  *)
(* behind a fresh init (with instructions) or after a push that returned    *)
(* non-zero, 'error' only after a failed validation or a raised exception;  *)
(* never 'success' after a failed push or a missing-remote abort.           *)
(***************************************************************************)
C1_StatusByStage ==
    \A r \in Reqs :
        (Publish(r) /\ Done(r)) =>
            /\ response[r].status = StageStatus(r)
            /\ response[r].status = "success" => (AutoPushOff(r) \/ PushOk(r))
            /\ response[r].status = "partial" =>
                  \/ RemoteMissingAfterInit(r) /\ "instructions" \in DOMAIN response[r]
                  \/ PushNonZero(r)
            /\ response[r].status = "error" => (~CodeGiven(r) \/ Raised(r))
            /\ response[r].status = "success" =>
                  ~(PushNonZero(r) \/ PushTimedOut(r) \/ RemoteMissingAfterInit(r))

C1_Witness ==
    \E r \in Reqs :
        Publish(r) /\ Done(r) /\ PushNonZero(r) /\ response[r].status = "partial"

(***************************************************************************)
(* C2: whenever the push of a Publish request is attempted and fails in    *)
(* any way (a non-zero exit with any error text, or the expiry of the       *)
(* 30-second timeout), the request ends with status 'partial'.              *)
(***************************************************************************)
C2_PushFailureIsPartial ==
    \A r \in Reqs :
        (Publish(r) /\ Done(r) /\ (PushNonZero(r) \/ PushTimedOut(r)))
            => response[r].status = "partial"

C3_Case(r) ==
    /\ Publish(r) /\ Done(r) /\ CodeGiven(r) /\ ~AutoPushOff(r)
    /\ Has(r, "git rev-parse", "nonzero")
    /\ Has(r, "git init", "rc0")
    /\ git.remote = <<>>

(***************************************************************************)
(* C3: with autoPush on, when the working directory was no repository and,  *)
(* after git init succeeded, no remote 'origin' is configured, the request  *)
(* ends 'partial' with instructions that contain 'add origin', and it has   *)
(* run no git add, git commit or git push.                                  *)
(***************************************************************************)
C3_MissingRemoteAfterInit ==
    \A r \in Reqs :
        C3_Case(r) =>
            /\ response[r].status = "partial"
            /\ "instructions" \in DOMAIN response[r]
            \* text: add origin
            /\ str_in(<<"a","d","d"," ","o","r","i","g","i","n">>, response[r].instructions)
            /\ Ops(r) \cap {"git add", "git commit", "git push"} = {}

C3_Witness == \E r \in Reqs : C3_Case(r)

(***************************************************************************)
(* C4: a Publish request with non-empty code and autoPush=false never runs  *)
(* git push, and once its three files are written it ends 'success' with    *)
(* the manual-publish instructions, whatever the repository and remote are. *)
(***************************************************************************)
C4_ManualMode ==
    \A r \in Reqs :
        (Publish(r) /\ CodeGiven(r) /\ AutoPushOff(r)) =>
            /\ "git push" \notin Ops(r)
            /\ (Done(r) /\ Has(r, "write docs/README.md", "ok")) =>
                  /\ response[r].status = "success"
                  /\ "instructions" \in DOMAIN response[r]
                  \* text: Manual deployment steps
                  /\ str_in(<<"M","a","n","u","a","l"," ","d","e","p","l","o","y","m",
                          "e","n","t"," ","s","t","e","p","s">>, response[r].instructions)
                  \* text: git push origin main
                  /\ str_in(<<"g","i","t"," ","p","u","s","h"," ","o","r","i","g","i",
                          "n"," ","m","a","i","n">>, response[r].instructions)

C4_Witness ==
    \E r \in Reqs :
        /\ Publish(r) /\ CodeGiven(r) /\ AutoPushOff(r) /\ Done(r)
        /\ Has(r, "write docs/README.md", "ok")
        /\ ~git.repo /\ git.remote = <<>>
        /\ response[r].status = "success"

(***************************************************************************)
(* C5: the step that takes a request with empty or absent code is the       *)
(* rejection: it ends the request, writes no file, creates no directory,    *)
(* starts no subprocess, and for Publish answers status 'error' without a   *)
(* log.                                                                     *)
(***************************************************************************)
C5_EmptyCodeRejected ==
    [][\A r \in Reqs :
          (~CodeGiven(r) /\ pc[r] = "start" /\ pc'[r] # pc[r]) =>
              /\ pc'[r] = "done"
              /\ files' = files /\ dirs' = dirs /\ git' = git
              /\ hist'[r] = <<>>
              /\ Publish(r) =>
                    /\ response'[r].status = "error"
                    /\ "log" \notin DOMAIN response'[r]
                    /\ deployment_log'[r] = <<>>
              /\ Execute(r) =>
                    \* text: Error: No code provided
                    startswith(response'[r].output, <<"E","r","r","o","r",":"," ","N",
                            "o"," ","c","o","d","e"," ","p","r","o","v","i","d","e","d">>)]_vars

C5_Witness ==
    \E r \in Reqs :
        /\ Publish(r) /\ ~CodeGiven(r) /\ Done(r)
        /\ response[r].status = "error"
        /\ hist[r] = <<>>

ClaimedPrefixes ==
    \* text: Execution Successful:
    \* text: Execution Failed (Runtime Error):
    {<<"E","x","e","c","u","t","i","o","n"," ","S","u","c","c","e","s","s","f","u","l",
            ":">>, <<"E","x","e","c","u","t","i","o","n"," ","F","a","i","l","e","d",
            " ","(","R","u","n","t","i","m","e"," ","E","r","r","o","r",")",":">>,
     \* text: Execution Failed (Timeout):
     \* text: Execution Failed:
     <<"E","x","e","c","u","t","i","o","n"," ","F","a","i","l","e","d"," ","(","T","i",
             "m","e","o","u","t",")",":">>, <<"E","x","e","c","u","t","i","o","n"," ",
             "F","a","i","l","e","d",":">>,
     \* text: An unexpected error
     <<"A","n"," ","u","n","e","x","p","e","c","t","e","d"," ","e","r","r","o","r">>}

\* text: Error saving file: 
SaveErrorPrefix == <<"E","r","r","o","r"," ","s","a","v","i","n","g"," ","f","i","l",
        "e",":"," ">>

PrefixesOf(text, prefixes) == {p \in prefixes : startswith(text, p)}

(***************************************************************************)
(* C6 (as stated): for every Execute request with non-empty code, whatever  *)
(* happens while saving and running it, the output starts with exactly one  *)
(* of 'Execution Successful:', 'Execution Failed (Runtime Error):',         *)
(* 'Execution Failed (Timeout):', 'Execution Failed:', 'An unexpected       *)
(* error'.                                                                  *)
(***************************************************************************)
C6_FixedPrefixes ==
    \A r \in Reqs :
        (Execute(r) /\ Done(r) /\ CodeGiven(r)) =>
            Cardinality(PrefixesOf(response[r].output, ClaimedPrefixes)) = 1

(***************************************************************************)
(* C6 (amended): the output of an Execute request with non-empty code       *)
(* starts with exactly one of the five prefixes above or 'Error saving      *)
(* file: ', and with the latter exactly when saving the code failed.        *)
(***************************************************************************)
C6_FixedPrefixesOrSaveError ==
    \A r \in Reqs :
        (Execute(r) /\ Done(r) /\ CodeGiven(r)) =>
            /\ Cardinality(PrefixesOf(response[r].output,
                                      ClaimedPrefixes \cup {SaveErrorPrefix})) = 1
            /\ startswith(response[r].output, SaveErrorPrefix)
                  <=> Has(r, "write generated_code.py", "Exception")

C6_Witness ==
    \E r \in Reqs :
        /\ Execute(r) /\ Done(r) /\ CodeGiven(r)
        /\ Has(r, "write generated_code.py", "Exception")
        /\ startswith(response[r].output, SaveErrorPrefix)

OutcomeTags ==
    \* text: Execution Successful:\n\n
    \* text: Execution Failed (Runtime Error):\n\n
    {<<"E","x","e","c","u","t","i","o","n"," ","S","u","c","c","e","s","s","f","u","l",
            ":","\n","\n">>, <<"E","x","e","c","u","t","i","o","n"," ","F","a","i","l",
            "e","d"," ","(","R","u","n","t","i","m","e"," ","E","r","r","o","r",")",":",
            "\n","\n">>,
     \* text: Execution Failed (Timeout): The code took too long to run.
     <<"E","x","e","c","u","t","i","o","n"," ","F","a","i","l","e","d"," ","(","T","i",
             "m","e","o","u","t",")",":"," ","T","h","e"," ","c","o","d","e"," ","t",
             "o","o","k"," ","t","o","o"," ","l","o","n","g"," ","t","o"," ","r","u",
             "n",".">>,
     \* text: Execution Failed: Python interpreter not found.
     <<"E","x","e","c","u","t","i","o","n"," ","F","a","i","l","e","d",":"," ","P","y",
             "t","h","o","n"," ","i","n","t","e","r","p","r","e","t","e","r"," ","n",
             "o","t"," ","f","o","u","n","d",".">>,
     \* text: An unexpected error occurred during execution: 
     <<"A","n"," ","u","n","e","x","p","e","c","t","e","d"," ","e","r","r","o","r"," ",
             "o","c","c","u","r","r","e","d"," ","d","u","r","i","n","g"," ","e","x",
             "e","c","u","t","i","o","n",":"," ">>}

\* what the interpreter does with the code the request submitted
OwnRun(r) == Behaviour(data[r].code)

(***************************************************************************)
(* C7: Execute tags each outcome of the run with its own text: exit code 0  *)
(* gives 'Execution Successful:\n\n' + stdout, a non-zero exit gives        *)
(* 'Execution Failed (Runtime Error):\n\n' + stderr, a timeout, a missing   *)
(* interpreter and any other launch failure give their fixed texts (the    *)
(* last followed by the message); no tag is a prefix of another.            *)
(***************************************************************************)
C7_OutcomeTags ==
    /\ \A p, q \in OutcomeTags : p # q => ~startswith(p, q)
    /\ \A r \in Reqs :
        (Execute(r) /\ Done(r) /\ CodeGiven(r)) =>
            LET out == response[r].output IN
            /\ Has(r, "python", "rc0") =>
                  \* text: Execution Successful:\n\n
                  out = <<"E","x","e","c","u","t","i","o","n"," ","S","u","c","c","e",
                          "s","s","f","u","l",":","\n","\n">> \o OwnRun(r).stdout
            /\ Has(r, "python", "nonzero") =>
                  \* text: Execution Failed (Runtime Error):\n\n
                  out = <<"E","x","e","c","u","t","i","o","n"," ","F","a","i","l","e",
                          "d"," ","(","R","u","n","t","i","m","e"," ","E","r","r","o",
                          "r",")",":","\n","\n">> \o OwnRun(r).stderr
            /\ Has(r, "python", "TimeoutExpired") =>
                  \* text: Execution Failed (Timeout): The code took too long to run.
                  out = <<"E","x","e","c","u","t","i","o","n"," ","F","a","i","l","e",
                          "d"," ","(","T","i","m","e","o","u","t",")",":"," ","T","h",
                          "e"," ","c","o","d","e"," ","t","o","o","k"," ","t","o","o",
                          " ","l","o","n","g"," ","t","o"," ","r","u","n",".">>
            /\ Has(r, "python", "FileNotFoundError") =>
                  \* text: Execution Failed: Python interpreter not found.
                  out = <<"E","x","e","c","u","t","i","o","n"," ","F","a","i","l","e",
                          "d",":"," ","P","y","t","h","o","n"," ","i","n","t","e","r",
                          "p","r","e","t","e","r"," ","n","o","t"," ","f","o","u","n",
                          "d",".">>
            /\ Has(r, "python", "Exception") =>
                  \E m \in ExcMsgs :
                      \* text: An unexpected error occurred during execution: 
                      out = <<"A","n"," ","u","n","e","x","p","e","c","t","e","d"," ",
                              "e","r","r","o","r"," ","o","c","c","u","r","r","e","d",
                              " ","d","u","r","i","n","g"," ","e","x","e","c","u","t",
                              "i","o","n",":"," ">> \o m

C7_Witness ==
    \E r \in Reqs :
        /\ Execute(r) /\ Done(r) /\ Has(r, "python", "nonzero")
        /\ OwnRun(r).stderr # <<>>

NothingToCommit(r) ==
    \E i \in DOMAIN hist[r] :
        /\ hist[r][i].op = "git commit" /\ hist[r][i].outcome = "nonzero"
        \* text: nothing to commit
        /\ str_in(<<"n","o","t","h","i","n","g"," ","t","o"," ","c","o","m","m","i","t">>, hist[r][i].text)

Fmts(log) == {log[i].fmt : i \in DOMAIN log}

(***************************************************************************)
(* C8: with autoPush on, when git commit reports 'nothing to commit', the   *)
(* log gets the informational no-op entry and no commit warning, the push   *)
(* is attempted next, and the terminal status follows from the push alone.  *)
(***************************************************************************)
C8_CommitNoop ==
    \A r \in Reqs :
        (Publish(r) /\ NothingToCommit(r)) =>
            /\ "No changes to commit" \in Fmts(deployment_log[r])
            /\ "Commit warning: {commit_result.stderr}" \notin Fmts(deployment_log[r])
            /\ "Committed changes" \notin Fmts(deployment_log[r])
            /\ pc[r] = "git_push" \/ "git push" \in Ops(r)
            /\ Done(r) =>
                  /\ response[r].log = deployment_log[r]
                  /\ response[r].status =
                        (IF PushOk(r) THEN "success"
                         ELSE IF PushNonZero(r) THEN "partial" ELSE "error")

C8_Witness ==
    \E r \in Reqs :
        Publish(r) /\ NothingToCommit(r) /\ Done(r) /\ PushOk(r)

PushErrorText(r) ==
    hist[r][CHOOSE i \in DOMAIN hist[r] : hist[r][i].op = "git push"].text

\* text: rejected
SaysRejected(text) == str_in(<<"r","e","j","e","c","t","e","d">>, str_lower(text))
SaysAuth(text) ==
    \* text: authentication
    \/ str_in(<<"a","u","t","h","e","n","t","i","c","a","t","i","o","n">>, str_lower(text))
    \* text: could not read
    \/ str_in(<<"c","o","u","l","d"," ","n","o","t"," ","r","e","a","d">>, str_lower(text))

TipCount(log) ==
    Cardinality({i \in DOMAIN log : log[i].fmt \in {PullTip, CredentialsTip}})

(***************************************************************************)
(* C9: when git push returns non-zero the result is 'partial', the raw      *)
(* error text is kept in the 'Push failed' log entry and in the error      *)
(* field, and the tip follows the text: 'rejected' (any case) gets the      *)
(* pull tip; otherwise an authentication phrase gets the credentials tip;   *)
(* otherwise none. Never more than one tip.                                 *)
(***************************************************************************)
C9_PushFailureTips ==
    \A r \in Reqs :
        (Publish(r) /\ Done(r) /\ PushNonZero(r)) =>
            LET err == PushErrorText(r)
                log == response[r].log
            IN /\ response[r].status = "partial"
               /\ response[r].error = err
               /\ \E i \in DOMAIN log :
                      log[i] = Entry("Push failed: {error_msg}", err)
               /\ PullTip \in Fmts(log) <=> SaysRejected(err)
               /\ CredentialsTip \in Fmts(log) <=> (~SaysRejected(err) /\ SaysAuth(err))
               /\ TipCount(log) <= 1

C9_Witness ==
    \E r \in Reqs :
        /\ Publish(r) /\ Done(r) /\ PushNonZero(r)
        /\ SaysRejected(PushErrorText(r)) /\ SaysAuth(PushErrorText(r))
        /\ TipCount(response[r].log) = 1

ArtifactOps ==
    {"write docs/generated_code.py", "write docs/index.html", "write docs/README.md"}

WroteArtifact(r) == \E op \in ArtifactOps : Has(r, op, "ok")
WroteAllArtifacts(r) == \A op \in ArtifactOps : Has(r, op, "ok")
Committed(r) == \E i \in DOMAIN git.commits : git.commits[i] = r

(***************************************************************************)
(* C10 (as stated): a Publish request that ends with status 'error' has     *)
(* written no artifact file and made no commit; a run that has written an   *)
(* artifact ends 'partial' or 'success'.                                    *)
(***************************************************************************)
C10_ErrorMeansNoProgress ==
    \A r \in Reqs :
        (Publish(r) /\ Done(r)) =>
            /\ response[r].status = "error" => (~WroteArtifact(r) /\ ~Committed(r))
            /\ WroteArtifact(r) => response[r].status \in {"partial", "success"}

(***************************************************************************)
(* C10 (amended): the validation error (status 'error' without a log) means *)
(* no durable progress: nothing was written or committed. An 'error' that   *)
(* comes with written artifacts follows an exception raised after they were *)
(* written, and with a commit only a push that timed out. Every run that    *)
(* ends 'partial' or 'success' has written all three artifacts.             *)
(***************************************************************************)
C10_ErrorAndProgress ==
    \A r \in Reqs :
        (Publish(r) /\ Done(r)) =>
            /\ (response[r].status = "error" /\ "log" \notin DOMAIN response[r]) =>
                  (hist[r] = <<>> /\ ~Committed(r))
            /\ (response[r].status = "error" /\ WroteArtifact(r)) => Raised(r)
            /\ (response[r].status = "error" /\ Committed(r)) => PushTimedOut(r)
            /\ response[r].status \in {"partial", "success"} => WroteAllArtifacts(r)

C10_Witness ==
    \E r \in Reqs :
        /\ Publish(r) /\ Done(r) /\ response[r].status = "error"
        /\ Has(r, "write docs/generated_code.py", "ok")
        /\ Has(r, "python", "TimeoutExpired")
        /\ DocsCodeFile \in DOMAIN files


\* s is an initial part of t
IsPrefix(s, t) == Len(s) <= Len(t) /\ SubSeq(t, 1, Len(s)) = s

\* request r made a call in this step
Stepped(r) == hist'[r] # hist[r]

(***************************************************************************)
(* C11: the log of a Publish request is append-only and ordered by          *)
(* execution: every step leaves each request's log an extension of what it  *)
(* was; entries are only added by a step in which that same request made a  *)
(* call, so a step of one request never touches the log of the other; the   *)
(* log returned in the result is the log as it was built, and nothing       *)
(* changes it after the request has answered.                               *)
(***************************************************************************)
C11_LogAppendOnly ==
    [][\A r \in Reqs :
          /\ IsPrefix(deployment_log[r], deployment_log'[r])
          /\ deployment_log'[r] # deployment_log[r] =>
                /\ Publish(r) /\ Stepped(r)
                /\ \A q \in Reqs \ {r} :
                      ~Stepped(q) /\ deployment_log'[q] = deployment_log[q]
          /\ Done(r) => deployment_log'[r] = deployment_log[r]
          /\ (pc'[r] = "done" /\ "log" \in DOMAIN response'[r]) =>
                response'[r].log = deployment_log'[r]]_vars

\* both requests publish at once and each has answered with its own log
C11_Witness ==
    /\ \A r \in Reqs :
          /\ Publish(r) /\ Done(r) /\ "log" \in DOMAIN response[r]
          /\ Len(response[r].log) >= 5
    /\ response["r1"].log # response["r2"].log

\* s contains t at some position when letter case is ignored
ContainsIgnoringCase(s, t) ==
    \E i \in 1..(Len(s) - Len(t) + 1) :
        \A k \in 1..Len(t) : LowerChar(s[i + k - 1]) = LowerChar(t[k])

\* the text holds '<html' or a doctype marker somewhere
HasDocumentMarker(s) ==
    \* text: <html
    \/ ContainsIgnoringCase(s, <<"<","h","t","m","l">>)
    \* text: <!DOCTYPE
    \/ ContainsIgnoringCase(s, <<"<","!","D","O","C","T","Y","P","E">>)

\* what the interpreter printed for the code request r submitted
StdoutOf(r) == OwnRun(r).stdout
StderrOf(r) == OwnRun(r).stderr

IndexWritten(r) == Has(r, "write docs/index.html", "ok")

LogFmts(r) == Fmts(deployment_log[r])

(***************************************************************************)
(* C12: the output classifier of Publish: the chosen output is stdout if    *)
(* stdout is non-empty and stderr otherwise; if it holds '<html' or a       *)
(* doctype marker anywhere, in any letter case, index.html is that output   *)
(* verbatim; otherwise (empty output included) index.html is the fixed      *)
(* wrapper with the output embedded; the branch taken depends on the text   *)
(* alone.                                                                   *)
(***************************************************************************)
C12_OutputClassifier ==
    \A r \in Reqs :
        (Publish(r) /\ IndexWritten(r)) =>
            LET chosen == IF StdoutOf(r) # <<>> THEN StdoutOf(r) ELSE StderrOf(r)
            IN /\ output[r] = chosen
               /\ HasDocumentMarker(chosen) =>
                     /\ files[DocsIndexFile] = chosen
                     /\ "Generated HTML page" \in LogFmts(r)
                     /\ "Created HTML wrapper" \notin LogFmts(r)
               /\ ~HasDocumentMarker(chosen) =>
                     /\ files[DocsIndexFile] = WrapperHead \o chosen \o WrapperTail
                     /\ "Created HTML wrapper" \in LogFmts(r)
                     /\ "Generated HTML page" \notin LogFmts(r)

\* upper-case '<HTML' on stdout went to index.html verbatim
C12_Witness ==
    \E r \in Reqs :
        /\ Publish(r) /\ IndexWritten(r) /\ data[r].code = CodeHtml
        /\ files[DocsIndexFile] = StdoutOf(r)

\* a write of one of the three files of docs/ raised
WriteFailed(r) == \E op \in ArtifactOps : Has(r, op, "Exception")

\* the three writes in the order the pipeline makes them
ArtifactOrder ==
    <<"write docs/generated_code.py", "write docs/index.html", "write docs/README.md">>

(***************************************************************************)
(* C13 (as stated): a failed write of the source file, the entry point or   *)
(* the README gets its own log entry and aborts neither the remaining       *)
(* writes nor the rest of the pipeline; only a failed creation of docs/ is  *)
(* fatal (it can fail, but not because docs/ exists already).               *)
(***************************************************************************)
C13_WriteFailureNotFatal ==
    \A r \in Reqs :
        (Publish(r) /\ Done(r)) =>
            /\ WriteFailed(r) =>
                  /\ ArtifactOps \subseteq Ops(r)
                  /\ response[r].status # "error"
                  /\ auto_push[r] => "git rev-parse" \in Ops(r)
            /\ (GITHUB_PAGES_DIR \in dirs /\ Has(r, "mkdir docs", "Exception")) =>
                  response[r].status = "error"

\* str(e) of everything the pipeline can raise
RawMessages ==
    ExcMsgs \cup {TimeoutExpired.msg, FileNotFoundError.msg}
            \cup {res.msg : res \in GitInit(git)}

(***************************************************************************)
(* C14 (as stated): every Publish request that has ended carries one        *)
(* complete result: a status among success, partial and error, a message    *)
(* and a log, whichever stage it stopped at; after a raised exception the   *)
(* status is 'error', the exception is the last log entry and its raw       *)
(* message is kept in the result.                                           *)
(***************************************************************************)
C14_CompleteResult ==
    \A r \in Reqs :
        (Publish(r) /\ Done(r)) =>
            /\ {"status", "message", "log"} \subseteq DOMAIN response[r]
            /\ response[r].status \in {"success", "partial", "error"}
            /\ Raised(r) =>
                  /\ response[r].status = "error"
                  /\ response[r].log # <<>>
                  /\ Last(response[r].log).arg \in RawMessages \ {<<>>}
                  /\ response[r].message.arg = Last(response[r].log).arg

\* the run of request r came back with an exit code
RanToExit(r) == Has(r, "python", "rc0") \/ Has(r, "python", "nonzero")

(***************************************************************************)
(* C15 (as stated): the process started for a request runs that request's   *)
(* own code: with two Execute requests or two Publish requests in flight,   *)
(* under every interleaving of their write-file and run-file steps, the     *)
(* output a request receives, or publishes as its entry point, is the       *)
(* output of the code it submitted.                                         *)
(***************************************************************************)
C15_OwnCodeRuns ==
    \A r \in Reqs :
        /\ (Execute(r) /\ Done(r) /\ RanToExit(r)) =>
              response[r].output = ExecOutput(OwnRun(r))
        /\ (Publish(r) /\ RanToExit(r)) =>
              output[r] = ChosenOutput(OwnRun(r))

(***************************************************************************)
(* C16 (as stated): with autoPush on, a failed 'git add' is recorded in the *)
(* log as a warning entry and not as a success entry, the pipeline does not *)
(* abort, and the commit is attempted next.                                 *)
(***************************************************************************)
C16_StageFailureWarned ==
    \A r \in Reqs :
        (Publish(r) /\ Has(r, "git add", "nonzero")) =>
            /\ "Added files to Git" \notin LogFmts(r)
            /\ pc[r] # "done" \/ "git commit" \in Ops(r)

\* the calls of request r in the order it made them
OpSeq(r) == [i \in DOMAIN hist[r] |-> hist[r][i].op]

\* the calls of the pipeline that come before any git command
MaterializeOrder ==
    <<"mkdir docs", "write docs/generated_code.py", "python",
      "write docs/index.html", "write docs/README.md">>

ReadmeWritten(r) == Has(r, "write docs/README.md", "ok")

(***************************************************************************)
(* C17 (as stated): autoPush gates only the push: a Publish request with    *)
(* autoPush=false still runs the repository check, git add and git commit,  *)
(* stops just before the push and returns 'success' with the manual         *)
(* instructions.                                                            *)
(***************************************************************************)
C17_GateOnlyPush ==
    \A r \in Reqs :
        (Publish(r) /\ CodeGiven(r) /\ AutoPushOff(r) /\ Done(r)
            /\ ReadmeWritten(r)) =>
            /\ {"git rev-parse", "git add", "git commit"} \subseteq Ops(r)
            /\ "git push" \notin Ops(r)
            /\ response[r].status = "success"
            /\ "instructions" \in DOMAIN response[r]

(***************************************************************************)
(* C17 (amended): autoPush gates the whole git phase: a Publish request     *)
(* with autoPush=false runs no git command at all; the moment its README is *)
(* written it answers 'success' with instructions that leave git add, git   *)
(* commit and git push to the user.  In both modes the calls before the git *)
(* phase are mkdir, write source, run, write entry point, write README, in  *)
(* that order, and with autoPush on the repository check comes next.        *)
(***************************************************************************)
C17_GateWholeGitPhase ==
    \A r \in Reqs :
        (Publish(r) /\ CodeGiven(r)) =>
            /\ AutoPushOff(r) => Ops(r) \cap GitOps = {}
            /\ (AutoPushOff(r) /\ ReadmeWritten(r)) =>
                  /\ Done(r)
                  /\ response[r].status = "success"
                  /\ "instructions" \in DOMAIN response[r]
                  \* text: 1. git add docs/
                  /\ str_in(<<"1","."," ","g","i","t"," ","a","d","d"," ","d","o","c",
                          "s","/">>, response[r].instructions)
                  \* text: 2. git commit
                  /\ str_in(<<"2","."," ","g","i","t"," ","c","o","m","m","i","t">>, response[r].instructions)
                  \* text: 3. git push origin main
                  /\ str_in(<<"3","."," ","g","i","t"," ","p","u","s","h"," ","o","r",
                          "i","g","i","n"," ","m","a","i","n">>, response[r].instructions)
            /\ \A i \in DOMAIN hist[r] :
                  IF i <= Len(MaterializeOrder)
                  THEN OpSeq(r)[i] = MaterializeOrder[i]
                  ELSE ~AutoPushOff(r) /\ OpSeq(r)[i] \in GitOps
            /\ Len(hist[r]) > Len(MaterializeOrder) =>
                  OpSeq(r)[Len(MaterializeOrder) + 1] = "git rev-parse"

\* manual mode in a repository that has a remote: the five calls and no more
C17_Witness ==
    \E r \in Reqs :
        /\ Publish(r) /\ AutoPushOff(r) /\ Done(r)
        /\ OpSeq(r) = MaterializeOrder
        /\ git.repo /\ git.remote # <<>>
        /\ response[r].status = "success"

\* the repository check found the directory already under git
ExistingRepo(r) == Has(r, "git rev-parse", "rc0")

\* position of the first call of op in the history of r (0 if none)
FirstAt(r, op) ==
    IF op \in Ops(r)
    THEN CHOOSE i \in DOMAIN hist[r] :
            hist[r][i].op = op /\ \A j \in 1..(i - 1) : hist[r][j].op # op
    ELSE 0

(***************************************************************************)
(* C18: the remote is queried before staging only behind a fresh git init:  *)
(* when the directory is a repository already, neither git init nor the     *)
(* remote query runs before git add (git add directly follows the check),   *)
(* so a missing remote there never gives the 'add origin' instructions and  *)
(* shows only as a failed push: 'partial' with an error field.  A remote    *)
(* query before staging always directly follows a successful git init.      *)
(***************************************************************************)
C18_RemoteCheckOnlyAfterInit ==
    \A r \in Reqs :
        Publish(r) =>
            /\ ExistingRepo(r) =>
                  /\ "git init" \notin Ops(r)
                  /\ \A i \in DOMAIN hist[r] :
                        hist[r][i].op = "git remote get-url" =>
                            FirstAt(r, "git add") \in 1..(i - 1)
                  /\ "git add" \in Ops(r) =>
                        FirstAt(r, "git add") = FirstAt(r, "git rev-parse") + 1
                  /\ "instructions" \notin DOMAIN response[r]
            /\ (ExistingRepo(r) /\ git.remote = <<>> /\ "git push" \in Ops(r)) =>
                  /\ PushNonZero(r) /\ Done(r)
                  /\ response[r].status = "partial"
                  /\ "error" \in DOMAIN response[r]
                  /\ response[r].error = PushErrorText(r)
            /\ \A i \in DOMAIN hist[r] :
                  (hist[r][i].op = "git remote get-url"
                     /\ FirstAt(r, "git add") \notin 1..(i - 1)) =>
                      /\ i > 1
                      /\ hist[r][i - 1].op = "git init"
                      /\ hist[r][i - 1].outcome = "rc0"

\* an existing repository without origin: the failed push reports it
C18_Witness ==
    \E r \in Reqs :
        /\ Publish(r) /\ ExistingRepo(r) /\ git.remote = <<>> /\ Done(r)
        /\ response[r].status = "partial"
        /\ response[r].error = NoOriginErr
        /\ "instructions" \notin DOMAIN response[r]

\* text: https://github.com/
HttpsForm == <<"h","t","t","p","s",":","/","/","g","i","t","h","u","b",".","c","o","m",
        "/">>
\* text: git@github.com:
SshForm == <<"g","i","t","@","g","i","t","h","u","b",".","c","o","m",":">>

\* the remote has one of the two forms the page URL is derived from
IsGithubForm(url) == startswith(url, HttpsForm) \/ startswith(url, SshForm)

\* <owner>/<repo>[.git]: what follows the host in either form
RemotePath(url) ==
    IF startswith(url, HttpsForm)
    THEN SubSeq(url, Len(HttpsForm) + 1, Len(url))
    ELSE SubSeq(url, Len(SshForm) + 1, Len(url))

\* only a trailing '.git' taken off
WithoutDotGitSuffix(s) ==
    \* text: .git
    IF Len(s) >= 4 /\ SubSeq(s, Len(s) - 3, Len(s)) = <<".","g","i","t">>
    THEN SubSeq(s, 1, Len(s) - 4)
    ELSE s

SlashAt(s) == CHOOSE i \in 1..Len(s) : s[i] = "/"
OwnerOf(url) == SubSeq(RemotePath(url), 1, SlashAt(RemotePath(url)) - 1)
RepoOf(url) ==
    WithoutDotGitSuffix(
        SubSeq(RemotePath(url), SlashAt(RemotePath(url)) + 1, Len(RemotePath(url))))

\* https://<owner>.github.io/<repo>/
ExpectedPagesUrl(url) ==
    \* text: https://
    \* text: .github.io/
    <<"h","t","t","p","s",":","/","/">> \o OwnerOf(url) \o <<".","g","i","t","h","u",
            "b",".","i","o","/">> \o RepoOf(url) \o <<"/">>

(***************************************************************************)
(* C19 (as stated): after a successful push, for a remote of the form       *)
(* https://github.com/<owner>/<repo>[.git] or                               *)
(* <user>@github.com:<owner>/<repo>[.git], the log holds the page URL       *)
(* https://<owner>.github.io/<repo>/ with owner and repository exactly as   *)
(* in the remote, only a trailing '.git' and the 'user@host:' prefix taken  *)
(* off, also when the repository name has '.git' inside it.                 *)
(***************************************************************************)
C19_PagesUrl ==
    \A r \in Reqs :
        (Publish(r) /\ Done(r) /\ PushOk(r) /\ IsGithubForm(git.remote)) =>
            \E i \in DOMAIN response[r].log :
                /\ response[r].log[i].fmt = "\nYour site will be live at:\n   {pages_url}"
                /\ response[r].log[i].arg = ExpectedPagesUrl(git.remote)

\* git commit returned non-zero for a reason other than 'nothing to commit'
CommitFailedOther(r) ==
    \E i \in DOMAIN hist[r] :
        /\ hist[r][i].op = "git commit" /\ hist[r][i].outcome = "nonzero"
        \* text: nothing to commit
        /\ ~ContainsIgnoringCase(hist[r][i].text, <<"n","o","t","h","i","n","g"," ","t",
                "o"," ","c","o","m","m","i","t">>)

(***************************************************************************)
(* C20: the commit never decides the terminal status of a Publish request:  *)
(* a commit that fails for another reason than 'nothing to commit' only     *)
(* adds a commit-warning entry to the log, the push is attempted whatever   *)
(* the commit returned, and the status follows from the push alone          *)
(* ('success' with the 'DEPLOYMENT COMPLETE' entry after a push that        *)
(* returned 0, also when the commit had failed).                            *)
(***************************************************************************)
C20_CommitNeverDecides ==
    \A r \in Reqs :
        (Publish(r) /\ "git commit" \in Ops(r)) =>
            /\ CommitFailedOther(r) =>
                  /\ "Commit warning: {commit_result.stderr}" \in LogFmts(r)
                  /\ "Committed changes" \notin LogFmts(r)
                  /\ "No changes to commit" \notin LogFmts(r)
            /\ pc[r] = "git_push" \/ "git push" \in Ops(r)
            /\ Done(r) =>
                  response[r].status =
                      IF PushOk(r) THEN "success"
                      ELSE IF PushNonZero(r) THEN "partial" ELSE "error"
            /\ (Done(r) /\ PushOk(r)) =>
                  "\nDEPLOYMENT COMPLETE!" \in Fmts(response[r].log)

\* the commit failed and the request still ended 'success'
C20_Witness ==
    \E r \in Reqs :
        /\ Publish(r) /\ Done(r) /\ CommitFailedOther(r) /\ PushOk(r)
        /\ response[r].status = "success"
        /\ "\nDEPLOYMENT COMPLETE!" \in Fmts(response[r].log)
        /\ ~Committed(r)

====
